---- MODULE Spec2Model ----
(***************************************************************************)
(* Model of prefix-cleaner-safetensors.py: the key normalisation           *)
(* (key.replace of the marker), clean_safetensors_file, update_index_json, *)
(* process_directory and main.                                             *)
(*                                                                         *)
(* Keys are sequences of tokens.  The token "." is the character '.', the  *)
(* token "W" is the literal text "_checkpoint_wrapped_module" and "x" is   *)
(* any other character; the marker "._checkpoint_wrapped_module" is the    *)
(* two tokens <<".", "W">>.  Since '.' occurs in the marker only as its    *)
(* first character, an occurrence of the marker in a key built from these  *)
(* tokens always starts at a "." token and covers exactly one "W" token,   *)
(* so str.replace on the text and Replace on the tokens agree.             *)
(***************************************************************************)
EXTENDS Integers, Sequences, FiniteSets, TLC

VARIABLES pc, key, once, twice, target, shards, manifest, shards0, manifest0,
          todo, any_modified, trace, exit

vars == <<pc, key, once, twice, target, shards, manifest, shards0, manifest0,
          todo, any_modified, trace, exit>>

\* ---------------------------------------------------------------- bounds
MaxKeyLen == 4
MaxEntries == 2
MaxMapEntries == 2
MaxRunEntries == 1
MaxShards == 2

\* ---------------------------------------------------------------- keys
Alphabet == {".", "W", "x"}

Marker == <<".", "W">>

\* "._checkpoint_wrapped_module" in key
Contains(k) ==
    \E i \in 1..(Len(k) - Len(Marker) + 1) :
        SubSeq(k, i, i + Len(Marker) - 1) = Marker

\* key.replace("._checkpoint_wrapped_module", ""): one left-to-right pass over
\* the non-overlapping occurrences; the result is not scanned again.
RECURSIVE Replace(_)
Replace(k) ==
    IF Len(k) < Len(Marker) THEN k
    ELSE IF SubSeq(k, 1, Len(Marker)) = Marker
         THEN Replace(SubSeq(k, Len(Marker) + 1, Len(k)))
         ELSE <<Head(k)>> \o Replace(Tail(k))

\* the name under which an entry is stored: the if/else of both rewriters
new_key(k) == IF Contains(k) THEN Replace(k) ELSE k

\* ---------------------------------------------------------------- dicts
\* A Python dict is a sequence of <<key, value>> pairs in insertion order.
DictKeys(d) == {d[i][1] : i \in DOMAIN d}

DictGet(d, k) == d[CHOOSE i \in DOMAIN d : d[i][1] = k][2]

\* a variant in which the first value stored under a key stays
DictSetKeepFirst(d, k, v) ==
    IF k \in DictKeys(d) THEN d ELSE Append(d, <<k, v>>)

\* d[k] = v: an existing key keeps its position and takes the new value
DictSet(d, k, v) ==
    IF k \in DictKeys(d)
    THEN [i \in DOMAIN d |-> IF d[i][1] = k THEN <<k, v>> ELSE d[i]]
    ELSE Append(d, <<k, v>>)

ToMap(d) == [k \in DictKeys(d) |-> DictGet(d, k)]

Perms(S) ==
    {s \in [1..Cardinality(S) -> S] :
        \A i, j \in 1..Cardinality(S) : i # j => s[i] # s[j]}

RECURSIVE SeqsUpTo(_, _)
SeqsUpTo(S, n) ==
    IF n = 0 THEN {<<>>}
    ELSE LET shorter == SeqsUpTo(S, n - 1)
         IN  shorter \cup {Append(s, x) : s \in {t \in shorter : Len(t) = n - 1}, x \in S}

\* ---------------------------------------------------------------- files
Payloads == {"T1", "T2"}

MetadataValues == {"None", "empty", "m1"}

FileNames == {"s1", "s2"}

OtherFields == {"o1", "o2"}

AllShardNames == <<"s1", "s2", "s3", "s4">>

ShardNames == {AllShardNames[i] : i \in 1..MaxShards}

\* the keys stored in the files of the runs: a clean key, a wrapped key, and a
\* key in which removing the marker forms the marker again
SysKeys == {<<"x">>, <<"x", ".", "W">>, <<"x", ".", ".", "W", "W">>}

EmptyTensors == [k \in {} |-> "T1"]

\* a file save_file has truncated and not finished, or one that never was a
\* valid container: safe_open raises on both
PartialFile == [kind |-> "partial", tensors |-> EmptyTensors, metadata |-> "None"]

CorruptFile == [kind |-> "corrupt", tensors |-> EmptyTensors, metadata |-> "None"]

\* a container: named tensors (names unique) and the optional metadata mapping
Containers(n, keys, payloads, metas) ==
    {[kind |-> "ok", tensors |-> t, metadata |-> m] :
        t \in UNION {[K -> payloads] : K \in {S \in SUBSET keys : Cardinality(S) <= n}},
        m \in metas}

\* a manifest document.  kind: "absent" no such file, "invalid" text that does
\* not parse (also a truncated write), "scalar" a number, true, false or null,
\* "array" a list, "object" a JSON object.  wm_kind: "none" the object has no
\* weight_map field, "mapping" it is an object, "other" it is any other value.
NoManifest ==
    [kind |-> "absent", wm_kind |-> "none", weight_map |-> <<>>, other |-> "o1"]

InvalidManifest ==
    [kind |-> "invalid", wm_kind |-> "none", weight_map |-> <<>>, other |-> "o1"]

WeightMaps(n, keys) ==
    {w \in SeqsUpTo(keys \X FileNames, n) :
        \A i, j \in DOMAIN w : i # j => w[i][1] # w[j][1]}

Manifests(n, keys, others) ==
    {NoManifest, InvalidManifest}
    \cup {[kind |-> k, wm_kind |-> "none", weight_map |-> <<>>, other |-> "o1"] :
            k \in {"scalar", "array"}}
    \cup {[kind |-> "object", wm_kind |-> wk, weight_map |-> <<>>, other |-> o] :
            wk \in {"none", "other"}, o \in others}
    \cup {[kind |-> "object", wm_kind |-> "mapping", weight_map |-> w, other |-> o] :
            w \in WeightMaps(n, keys), o \in others}

\* ---------------------------------------------------------------- clean_safetensors_file
\* the loop over f.keys(), in the file's own order of names
RECURSIVE load_tensors(_, _, _)
load_tensors(f, order, tensors) ==
    IF order = <<>> THEN tensors
    ELSE LET k == Head(order)
             tensor == f.tensors[k]
         IN  load_tensors(f, Tail(order),
                          IF Contains(k)
                          THEN DictSet(tensors, Replace(k), tensor)
                          ELSE DictSet(tensors, k, tensor))

\* a variant that sets the flag in both branches of the loop
keys_modified_always(f) == TRUE

keys_modified(f) == \E k \in DOMAIN f.tensors : Contains(k)

\* a variant that saves without the metadata read
metadata_dropped(f) == "empty"

\* metadata = f.metadata() or {}
read_metadata(f) == IF f.metadata = "None" THEN "empty" ELSE f.metadata

\* save_file(tensors, file_path, metadata=metadata) inside try/except.  The
\* file is opened for writing at the same path: save = "ok" the write
\* completes, "failed" it raises before the file is opened (the content
\* stays), "partial" it raises after the file was truncated.
save_tensors(old, tensors, metadata, save) ==
    CASE save = "ok" ->
            [ret |-> "True", saved |-> "ok",
             file |-> [kind |-> "ok", tensors |-> ToMap(tensors), metadata |-> metadata]]
      [] save = "failed" -> [ret |-> "False", saved |-> "failed", file |-> old]
      [] OTHER -> [ret |-> "False", saved |-> "partial", file |-> PartialFile]

clean_safetensors_file(f, order, read_ok, save) ==
    IF ~read_ok \/ f.kind # "ok"
    THEN [ret |-> "False", saved |-> "none", file |-> f]
    ELSE IF ~keys_modified(f)
    THEN [ret |-> "False", saved |-> "none", file |-> f]
    ELSE save_tensors(f, load_tensors(f, order, <<>>), read_metadata(f), save)

\* ---------------------------------------------------------------- update_index_json
RECURSIVE new_weight_map(_, _)
new_weight_map(items, new) ==
    IF items = <<>> THEN new
    ELSE LET k == Head(items)[1]
             filename == Head(items)[2]
         IN  new_weight_map(Tail(items),
                            IF Contains(k)
                            THEN DictSet(new, Replace(k), filename)
                            ELSE DictSet(new, k, filename))

index_modified(m) == \E i \in DOMAIN m.weight_map : Contains(m.weight_map[i][1])

\* open(index_path, 'w') and json.dump inside try/except: write = "ok" the
\* document is written, "failed" open raises (the content stays), "partial"
\* json.dump raises after open truncated the file.
dump_index(old, new, write) ==
    CASE write = "ok" -> [ret |-> "True", saved |-> "ok", file |-> new]
      [] write = "failed" -> [ret |-> "False", saved |-> "failed", file |-> old]
      [] OTHER -> [ret |-> "False", saved |-> "partial", file |-> InvalidManifest]

update_index_json(m, read_ok, write) ==
    IF m.kind = "absent"
    THEN [ret |-> "False", saved |-> "none", file |-> m]
    ELSE IF ~read_ok \/ m.kind = "invalid"
    THEN [ret |-> "False", saved |-> "none", file |-> m]
    \* 'weight_map' in index_data, outside any try: TypeError on a scalar
    ELSE IF m.kind = "scalar"
    THEN [ret |-> "raised", saved |-> "none", file |-> m]
    ELSE IF m.kind = "array" \/ m.wm_kind = "none"
    THEN [ret |-> "False", saved |-> "none", file |-> m]
    \* index_data['weight_map'].items(), outside any try: AttributeError
    ELSE IF m.wm_kind = "other"
    THEN [ret |-> "raised", saved |-> "none", file |-> m]
    ELSE IF ~index_modified(m)
    THEN [ret |-> "False", saved |-> "none", file |-> m]
    ELSE dump_index(m, [m EXCEPT !.weight_map = new_weight_map(m.weight_map, <<>>)], write)

SaveOutcomes == {"ok", "failed", "partial"}

\* ---------------------------------------------------------------- state
NoShards == [n \in {} |-> CorruptFile]

IndexName == "model.index.json"

Event(op, file, r) == [op |-> op, file |-> file, ret |-> r.ret, saved |-> r.saved]

\* the results clean_safetensors_file can give on file f: the order of
\* f.keys() and the outcome of the read and of the save are inputs
CleanResults(f) ==
    {clean_safetensors_file(f, order, read_ok, save) :
        order \in Perms(DOMAIN f.tensors), read_ok \in BOOLEAN, save \in SaveOutcomes}

IndexResults(m) ==
    {update_index_json(m, read_ok, write) : read_ok \in BOOLEAN, write \in SaveOutcomes}

\* ---------------------------------------------------------------- the normalisation alone
InitNorm ==
    /\ pc = "key"
    /\ key \in SeqsUpTo(Alphabet, MaxKeyLen)
    /\ once = <<>> /\ twice = <<>>
    /\ target = "none" /\ shards = NoShards /\ manifest = NoManifest
    /\ shards0 = NoShards /\ manifest0 = NoManifest
    /\ todo = {} /\ any_modified = FALSE /\ trace = <<>> /\ exit = -1

NormalizeOnce ==
    /\ pc = "key"
    /\ once' = new_key(key)
    /\ pc' = "once"
    /\ UNCHANGED <<key, twice, target, shards, manifest, shards0, manifest0,
                   todo, any_modified, trace, exit>>

NormalizeTwice ==
    /\ pc = "once"
    /\ twice' = new_key(once)
    /\ pc' = "twice"
    /\ UNCHANGED <<key, once, target, shards, manifest, shards0, manifest0,
                   todo, any_modified, trace, exit>>

NextNorm == NormalizeOnce \/ NormalizeTwice

SpecNorm == InitNorm /\ [][NextNorm]_vars

\* ---------------------------------------------------------------- one call of clean_safetensors_file
InitShard ==
    /\ pc = "call"
    /\ key = <<>> /\ once = <<>> /\ twice = <<>>
    /\ target = "s1"
    /\ shards \in [{"s1"} -> Containers(MaxEntries, SysKeys, Payloads, MetadataValues) \cup {CorruptFile}]
    /\ manifest = NoManifest
    /\ shards0 = shards /\ manifest0 = manifest
    /\ todo = {} /\ any_modified = FALSE /\ trace = <<>> /\ exit = -1

CallClean ==
    /\ pc = "call"
    /\ \E r \in CleanResults(shards[target]) :
        /\ shards' = [shards EXCEPT ![target] = r.file]
        /\ trace' = Append(trace, Event("clean", target, r))
    /\ pc' = "returned"
    /\ UNCHANGED <<key, once, twice, target, manifest, shards0, manifest0,
                   todo, any_modified, exit>>

NextShard == CallClean

SpecShard == InitShard /\ [][NextShard]_vars

\* ---------------------------------------------------------------- one call of update_index_json
InitIndex ==
    /\ pc = "call"
    /\ key = <<>> /\ once = <<>> /\ twice = <<>>
    /\ target = IndexName
    /\ shards = NoShards
    /\ manifest \in Manifests(MaxMapEntries, SysKeys, OtherFields)
    /\ shards0 = shards /\ manifest0 = manifest
    /\ todo = {} /\ any_modified = FALSE /\ trace = <<>> /\ exit = -1

CallUpdate ==
    /\ pc = "call"
    /\ \E r \in IndexResults(manifest) :
        /\ manifest' = r.file
        /\ trace' = Append(trace, Event("index", IndexName, r))
        /\ pc' = IF r.ret = "raised" THEN "raised" ELSE "returned"
    /\ UNCHANGED <<key, once, twice, target, shards, shards0, manifest0,
                   todo, any_modified, exit>>

NextIndex == CallUpdate

SpecIndex == InitIndex /\ [][NextIndex]_vars

\* ---------------------------------------------------------------- main
\* The target path: "missing" nothing is there, "other" a file whose suffix is
\* not .safetensors, "dir" the directory, or the name of one container in it.
RunKeys == {<<"x">>, <<"x", ".", "W">>}

RunContainers == Containers(MaxRunEntries, RunKeys, {"T1"}, {"None"}) \cup {CorruptFile}

Init ==
    /\ pc = "start"
    /\ key = <<>> /\ once = <<>> /\ twice = <<>>
    /\ \E n \in 0..MaxShards :
        shards \in [{AllShardNames[i] : i \in 1..n} -> RunContainers]
    /\ manifest \in Manifests(MaxMapEntries, RunKeys, {"o1"})
    /\ target \in {"missing", "other", "dir"} \cup DOMAIN shards
    /\ target = "missing" => shards = NoShards /\ manifest = NoManifest
    /\ shards0 = shards /\ manifest0 = manifest
    /\ todo = {} /\ any_modified = FALSE /\ trace = <<>> /\ exit = -1

\* if not path.exists(): sys.exit(1)
MissingPath ==
    /\ pc = "start" /\ target = "missing"
    /\ pc' = "exited" /\ exit' = 1
    /\ UNCHANGED <<key, once, twice, target, shards, manifest, shards0, manifest0,
                   todo, any_modified, trace>>

\* else: "Path must be a .safetensors file or directory", sys.exit(1)
UnsupportedPath ==
    /\ pc = "start" /\ target = "other"
    /\ pc' = "exited" /\ exit' = 1
    /\ UNCHANGED <<key, once, twice, target, shards, manifest, shards0, manifest0,
                   todo, any_modified, trace>>

\* path.is_file() and path.suffix == ".safetensors": clean_safetensors_file(path)
SingleClean ==
    /\ pc = "start" /\ target \in DOMAIN shards
    /\ \E r \in CleanResults(shards[target]) :
        /\ shards' = [shards EXCEPT ![target] = r.file]
        /\ trace' = Append(trace, Event("clean", target, r))
    /\ pc' = "single_index"
    /\ UNCHANGED <<key, once, twice, target, manifest, shards0, manifest0,
                   todo, any_modified, exit>>

\* a variant that looks at the value clean_safetensors_file returned
single_index_if_modified(ret, m) == ret = "True" /\ m.kind # "absent"

\* if index_path.exists(): update_index_json(index_path); ret, the value
\* clean_safetensors_file returned, is discarded by main
single_index_due(ret, m) == m.kind # "absent"

SingleIndex ==
    /\ pc = "single_index" /\ single_index_due(trace[Len(trace)].ret, manifest)
    /\ \E r \in IndexResults(manifest) :
        /\ manifest' = r.file
        /\ trace' = Append(trace, Event("index", IndexName, r))
        /\ pc' = IF r.ret = "raised" THEN "crashed" ELSE "complete"
        /\ exit' = IF r.ret = "raised" THEN 1 ELSE exit
    /\ UNCHANGED <<key, once, twice, target, shards, shards0, manifest0,
                   todo, any_modified>>

SingleNoIndex ==
    /\ pc = "single_index" /\ ~single_index_due(trace[Len(trace)].ret, manifest)
    /\ pc' = "complete"
    /\ UNCHANGED <<key, once, twice, target, shards, manifest, shards0, manifest0,
                   todo, any_modified, trace, exit>>

\* process_directory up to the loop: the glob, the early return when it is empty
DirStart ==
    /\ pc = "start" /\ target = "dir"
    /\ todo' = DOMAIN shards
    /\ any_modified' = FALSE
    /\ pc' = IF DOMAIN shards = {} THEN "complete" ELSE "dir"
    /\ UNCHANGED <<key, once, twice, target, shards, manifest, shards0, manifest0,
                   trace, exit>>

\* one iteration of the loop over safetensors_files (the glob's order is any)
DirClean ==
    /\ pc = "dir"
    /\ \E f \in todo :
        /\ \E r \in CleanResults(shards[f]) :
            /\ shards' = [shards EXCEPT ![f] = r.file]
            /\ trace' = Append(trace, Event("clean", f, r))
            /\ any_modified' = (any_modified \/ r.ret = "True")
        /\ todo' = todo \ {f}
    /\ UNCHANGED <<pc, key, once, twice, target, manifest, shards0, manifest0, exit>>

\* a variant that ignores any_modified
dir_index_always(any, m) == m.kind # "absent"

\* if any_modified and index_path.exists(): update_index_json(index_path)
dir_index_due(any, m) == any /\ m.kind # "absent"

DirIndex ==
    /\ pc = "dir" /\ todo = {} /\ dir_index_due(any_modified, manifest)
    /\ \E r \in IndexResults(manifest) :
        /\ manifest' = r.file
        /\ trace' = Append(trace, Event("index", IndexName, r))
        /\ pc' = IF r.ret = "raised" THEN "crashed" ELSE "complete"
        /\ exit' = IF r.ret = "raised" THEN 1 ELSE exit
    /\ UNCHANGED <<key, once, twice, target, shards, shards0, manifest0,
                   todo, any_modified>>

\* elif any_modified: the note; else nothing
DirNoIndex ==
    /\ pc = "dir" /\ todo = {} /\ ~dir_index_due(any_modified, manifest)
    /\ pc' = "complete"
    /\ UNCHANGED <<key, once, twice, target, shards, manifest, shards0, manifest0,
                   todo, any_modified, trace, exit>>

\* print("Processing complete!") and the normal end of the process
Complete ==
    /\ pc = "complete"
    /\ pc' = "done" /\ exit' = 0
    /\ UNCHANGED <<key, once, twice, target, shards, manifest, shards0, manifest0,
                   todo, any_modified, trace>>

Next ==
    \/ MissingPath
    \/ UnsupportedPath
    \/ SingleClean
    \/ SingleIndex
    \/ SingleNoIndex
    \/ DirStart
    \/ DirClean
    \/ DirIndex
    \/ DirNoIndex
    \/ Complete

Spec == Init /\ [][Next]_vars

\* ================================================================ claims
\* ---------------------------------------------------------------- C1 (SpecNorm)
\* C1: for every key, the normalised key contains no occurrence of the marker,
\* and normalising it again gives the same key.
C1_NormalizedHasNoMarker ==
    pc = "twice" => ~Contains(once) /\ twice = once

\* ---------------------------------------------------------------- C2 (Spec)
Renamed(f, k) ==
    /\ k \in DOMAIN shards0[f].tensors
    /\ Contains(k)
    /\ \E i \in DOMAIN trace :
        trace[i].op = "clean" /\ trace[i].file = f /\ trace[i].ret = "True"

HasWeightMap(m) == m.kind = "object" /\ m.wm_kind = "mapping"

\* C2: after a complete run, every key the run renamed in a container and the
\* manifest referenced before the run is referenced in its normalised form,
\* with the same shard filename, and the manifest does not hold both forms.
C2_ManifestFollowsRenamedKeys ==
    pc = "done" =>
        \A f \in DOMAIN shards0 : \A k \in SysKeys :
            (Renamed(f, k) /\ HasWeightMap(manifest0)
                /\ k \in DictKeys(manifest0.weight_map)) =>
                /\ HasWeightMap(manifest)
                /\ new_key(k) \in DictKeys(manifest.weight_map)
                /\ DictGet(manifest.weight_map, new_key(k))
                       = DictGet(manifest0.weight_map, k)
                /\ k \notin DictKeys(manifest.weight_map)

\* ---------------------------------------------------------------- C3 (SpecShard)
Rewritten(old) ==
    {[kind |-> "ok", tensors |-> ToMap(load_tensors(old, order, <<>>)),
      metadata |-> read_metadata(old)] : order \in Perms(DOMAIN old.tensors)}

\* C3: after clean_safetensors_file returns, the file holds the complete
\* original content or the complete rewritten content.
C3_NoPartialContainer ==
    pc = "returned" =>
        \/ shards[target] = shards0[target]
        \/ shards[target] \in Rewritten(shards0[target])

\* ---------------------------------------------------------------- C4 (SpecShard)
Injective(keys) ==
    \A k1, k2 \in keys : k1 # k2 => Replace(k1) # Replace(k2)

\* C4: a rewrite changes only key names: every new key is the normalisation of
\* an original key and carries that entry's payload, the metadata written is
\* the metadata read, and without collisions there is one entry per original.
C4_RewriteChangesOnlyKeys ==
    (pc = "returned" /\ trace[1].ret = "True") =>
        LET old == shards0[target]
            new == shards[target]
        IN  /\ new.kind = "ok"
            /\ \A nk \in DOMAIN new.tensors :
                  \E k \in DOMAIN old.tensors :
                      Replace(k) = nk /\ new.tensors[nk] = old.tensors[k]
            /\ new.metadata = (IF old.metadata = "None" THEN "empty" ELSE old.metadata)
            /\ Injective(DOMAIN old.tensors) =>
                  /\ Cardinality(DOMAIN new.tensors) = Cardinality(DOMAIN old.tensors)
                  /\ \A k \in DOMAIN old.tensors :
                        /\ Replace(k) \in DOMAIN new.tensors
                        /\ new.tensors[Replace(k)] = old.tensors[k]

C4_Witness ==
    /\ pc = "returned" /\ trace[1].ret = "True"
    /\ shards0[target].metadata = "m1"
    /\ Cardinality(DOMAIN shards0[target].tensors) = 2
    /\ Injective(DOMAIN shards0[target].tensors)
    /\ \E k1, k2 \in DOMAIN shards0[target].tensors :
          shards0[target].tensors[k1] # shards0[target].tensors[k2]

\* ---------------------------------------------------------------- C5 (SpecIndex)
IndexRewrote == pc = "returned" /\ trace[1].ret = "True"

\* C5 as stated: a manifest rewrite keeps every other field, and for every
\* original entry (k, filename) the new weight_map maps normalize(k) to that
\* filename, also when two keys with different filenames collide.
C5_EveryEntryKeepsFilename ==
    IndexRewrote =>
        /\ manifest.kind = manifest0.kind
        /\ manifest.other = manifest0.other
        /\ \A i \in DOMAIN manifest0.weight_map :
              LET k == manifest0.weight_map[i][1]
                  filename == manifest0.weight_map[i][2]
              IN  /\ Replace(k) \in DictKeys(manifest.weight_map)
                  /\ DictGet(manifest.weight_map, Replace(k)) = filename

\* the last entry, in document order, whose key normalises to nk
LastFor(w, nk) ==
    CHOOSE i \in DOMAIN w :
        /\ Replace(w[i][1]) = nk
        /\ \A j \in DOMAIN w : j > i => Replace(w[j][1]) # nk

\* C5 amended: a manifest rewrite keeps every other field, the new weight_map
\* has exactly the normalised keys, and it maps normalize(k) to the filename
\* of the last original entry, in document order, whose key normalises to
\* normalize(k): the entry's own filename unless a later entry collides.
C5_LastEntryWins ==
    IndexRewrote =>
        /\ manifest.kind = manifest0.kind
        /\ manifest.wm_kind = manifest0.wm_kind
        /\ manifest.other = manifest0.other
        /\ DictKeys(manifest.weight_map)
               = {Replace(manifest0.weight_map[i][1]) : i \in DOMAIN manifest0.weight_map}
        /\ \A i \in DOMAIN manifest0.weight_map :
              LET nk == Replace(manifest0.weight_map[i][1])
              IN  DictGet(manifest.weight_map, nk)
                      = manifest0.weight_map[LastFor(manifest0.weight_map, nk)][2]

C5_Witness ==
    /\ IndexRewrote
    /\ manifest0.other = "o2"
    /\ \E i, j \in DOMAIN manifest0.weight_map :
          /\ i < j
          /\ Replace(manifest0.weight_map[i][1]) = Replace(manifest0.weight_map[j][1])
          /\ manifest0.weight_map[i][2] # manifest0.weight_map[j][2]

\* ---------------------------------------------------------------- C6 (Spec)
IndexAttempted == \E i \in DOMAIN trace : trace[i].op = "index"

ReportedModified ==
    \E i \in DOMAIN trace : trace[i].op = "clean" /\ trace[i].ret = "True"

PastManifestStep == pc \in {"complete", "done", "crashed"}

\* C6: in directory mode the manifest rewrite is attempted iff some container
\* reported modified and the manifest exists, and only after every container
\* was processed; no container is processed after it.
C6_ManifestAfterAllShards ==
    target = "dir" =>
        /\ PastManifestStep =>
              (IndexAttempted <=> (ReportedModified /\ manifest0.kind # "absent"))
        /\ ~PastManifestStep => ~IndexAttempted
        /\ \A i \in DOMAIN trace :
              trace[i].op = "index" =>
                  /\ i = Len(trace)
                  /\ \A j \in 1..(i - 1) : trace[j].op = "clean"
                  /\ {trace[j].file : j \in 1..(i - 1)} = DOMAIN shards0
                  /\ todo = {}

C6_Witness ==
    /\ target = "dir" /\ pc = "done"
    /\ Len(trace) = 3
    /\ trace[3].op = "index"
    /\ \E i \in 1..2 : trace[i].ret = "False"

\* ---------------------------------------------------------------- C7 (Spec)
\* C7: in single-file mode the manifest rewrite is attempted after the shard
\* rewrite whenever the manifest exists, whatever the shard rewrite returned;
\* without a manifest the step is skipped and the run completes normally.
C7_SingleFileAlwaysTriesManifest ==
    (target \in DOMAIN shards0 /\ PastManifestStep) =>
        /\ trace[1].op = "clean" /\ trace[1].file = target
        /\ manifest0.kind # "absent" =>
              Len(trace) = 2 /\ trace[2].op = "index"
        /\ manifest0.kind = "absent" =>
              /\ Len(trace) = 1
              /\ pc # "crashed"
              /\ pc = "done" => exit = 0

C7_Witness ==
    /\ target \in DOMAIN shards0 /\ pc = "done"
    /\ trace[1].ret = "False"
    /\ Len(trace) = 2 /\ trace[2].op = "index" /\ trace[2].ret = "True"

\* ---------------------------------------------------------------- C8 (Spec)
Ended == pc \in {"exited", "crashed", "done"}

\* C8: a run ends with a non-zero status, having touched no file, exactly when
\* the path is missing or unsupported; every other run completes with status 0.
C8_OnlyPathErrorsAreFatal ==
    Ended =>
        /\ (exit # 0) <=> (target \in {"missing", "other"})
        /\ exit # 0 => (shards = shards0 /\ manifest = manifest0 /\ trace = <<>>)
        /\ target \notin {"missing", "other"} => (pc = "done" /\ exit = 0)

\* ---------------------------------------------------------------- C9 (SpecIndex)
Malformed(m) ==
    \/ m.kind \in {"invalid", "scalar", "array"}
    \/ m.kind = "object" /\ m.wm_kind = "other"

\* C9: on an existing manifest every failure (unreadable, unparseable, not an
\* object, weight_map not a mapping, failed write) makes update_index_json
\* return False; none propagates out of the function.
C9_IndexFailuresAreCaught ==
    (pc # "call" /\ manifest0.kind # "absent") =>
        /\ pc = "returned"
        /\ (Malformed(manifest0) \/ trace[1].saved \in {"failed", "partial"}) =>
              trace[1].ret = "False"

\* ---------------------------------------------------------------- C10 (Spec)
\* C10: a container, or a manifest document with a key mapping (or without
\* the field), in which no key contains the marker makes the rewriter return
\* False and write nothing, the file staying as it was; a rewriter returns
\* True only if some key contained the marker and the write completed.
C10_NotModifiedWithoutMarker ==
    \A i \in DOMAIN trace :
        LET e == trace[i]
        IN  /\ e.op = "clean" =>
                LET old == shards0[e.file]
                    marked == \E k \in DOMAIN old.tensors : Contains(k)
                IN  /\ ~marked =>
                          e.ret = "False" /\ e.saved = "none" /\ shards[e.file] = old
                    /\ e.ret = "True" => marked /\ e.saved = "ok"
            /\ e.op = "index" =>
                LET marked == \E j \in DOMAIN manifest0.weight_map :
                                  Contains(manifest0.weight_map[j][1])
                IN  /\ (manifest0.kind = "object" /\ manifest0.wm_kind # "other" /\ ~marked) =>
                          e.ret = "False" /\ e.saved = "none" /\ manifest = manifest0
                    /\ e.ret = "True" => HasWeightMap(manifest0) /\ marked /\ e.saved = "ok"

C10_Witness ==
    /\ pc = "done"
    /\ \E i \in DOMAIN trace :
          /\ trace[i].op = "clean" /\ trace[i].ret = "False"
          /\ DOMAIN shards0[trace[i].file].tensors = {<<"x">>}
    /\ \E i \in DOMAIN trace : trace[i].op = "clean" /\ trace[i].ret = "True"
    /\ \E i \in DOMAIN trace : trace[i].op = "index" /\ trace[i].ret = "False"
    /\ HasWeightMap(manifest0) /\ manifest0.weight_map = << <<<<"x">>, "s1">> >>

====
